---- MODULE Spec2Model ----
(***************************************************************************)
(* auth-service: the use case layer (Register, Login, Refresh, Verify),    *)
(* the token manager and the Postgres user repository, as a state machine. *)
(* Request handlers run concurrently; every repository call is one atomic  *)
(* step on the database and the only point where handlers interleave.      *)
(* Time is the wall clock in half seconds, finer than the whole seconds a   *)
(* token's claims are written in.                                          *)
(***************************************************************************)
EXTENDS Integers, FiniteSets, Sequences, TLC

\* ------------------------------------------------------------------ bounds
MaxCalls == 3          \* calls of Register, Login and Refresh in one run

\* ------------------------------------------------------- program constants
\* A duration of n seconds on the clock, and Time.Unix(): the whole seconds
\* of an instant of the clock.
Seconds(n) == 2 * n
Unix(t) == t \div 2

AccessTTL == Seconds(15 * 60)            \* time.Minute*15
RefreshTTL == Seconds(7 * 24 * 60 * 60)  \* time.Hour*24*7
SecretKey == "secret"  \* TokenManager.secretKey

Procs == {1, 2}                       \* concurrent request handlers
Emails == {"a@x.com", "b@x.com"}
Passwords == {"secret1", "secret2"}
Usernames == {"alice"}
RefreshValues == {"r1", "r2"}         \* values crypto/rand may produce
\* Salts the hasher may draw; no property here compares two hashes.
Salts == {1}
\* Instants the clock is observed at. An access token minted at 0 expires
\* at the second; a refresh record minted at 0 has expired at the third,
\* which is the very expiry of one minted at the second.
Instants == {0, AccessTTL, AccessTTL + RefreshTTL}

\* Verify: the instants tokens are minted and presented at, around the first
\* whole second and around one access lifetime later; the keys and the
\* algorithm names a presented token may carry.
MintInstants == {0, 1}
VerifyInstants == {0, 1, AccessTTL - 1, AccessTTL, AccessTTL + 1}
Keys == {SecretKey, "guess"}
Algorithms == {"HS256", "HS384", "HS512", "RS256", "none"}
Subjects == {1, 2}

\* ------------------------------------------------------------ domain types
\* domain.TokenPair{}: both strings empty.
NoAccess == [alg |-> "", sub |-> 0, iat |-> 0, exp |-> 0, key |-> ""]
NoRefresh == ""
EmptyPair == [AccessToken |-> NoAccess, RefreshToken |-> NoRefresh]
NoUser == [ID |-> 0, Username |-> "", Email |-> "",
           PasswordHash |-> [plain |-> "", salt |-> 0]]
\* An HTTP response: the status, and in the body either the field "error"
\* or a token pair, or nothing. NoResponse: nothing written yet.
NoResponse == [status |-> 0, error |-> "", pair |-> EmptyPair]

\* Errors. A sentinel of package domain is its name; an error built on the
\* spot by errors.New is tagged so that errors.Is never equates it with a
\* sentinel of the same text.
NilErr == "nil"
ErrInvalidCredentials == "domain.ErrInvalidCredentials"
ErrUserNotFound == "domain.ErrUserNotFound"
ErrRefreshTokenNotFound == "domain.ErrRefreshTokenNotFound"
ErrTokenExpired == "domain.ErrTokenExpired"
ErrEmailExists == "domain.ErrEmailExists"
NewInvalidCredentials == "errors.New(invalid credentials)"
NewInvalidRefreshToken == "errors.New(invalid refresh token)"
NewRefreshTokenExpired == "errors.New(refresh token expired)"
PgNoRows == "pgx.ErrNoRows"
PgUniqueViolation == "pgconn.PgError(23505 unique_violation)"
PgConnError == "pgconn: connection failure or context cancelled"
HashError == "bcrypt: error"
SignError == "jwt: signing error"
RandError == "crypto/rand: read error"
InvalidTokenErr == "fmt.Errorf(invalid token)"

\* err.Error()
ErrorText(err) ==
    CASE err = ErrInvalidCredentials -> "invalid credentials"
      [] err = NewInvalidCredentials -> "invalid credentials"
      [] err = ErrUserNotFound -> "user not found"
      [] err = ErrRefreshTokenNotFound -> "invalid or expired refresh token"
      [] err = NewInvalidRefreshToken -> "invalid refresh token"
      [] err = NewRefreshTokenExpired -> "refresh token expired"
      [] err = ErrTokenExpired -> "token has expired"
      [] err = ErrEmailExists -> "email already exists"
      [] OTHER -> err

\* errors.Is(err, target) for a sentinel target
ErrorsIs(err, target) == err = target

VARIABLES
    users,          \* table users
    userSeq,        \* last value of the users.id sequence
    refreshTokens,  \* table refresh_tokens
    tokenSeq,       \* last value of the refresh_tokens.id sequence
    now,            \* wall clock, seconds
    calls,          \* calls started so far
    proc,           \* per handler: position, locals and result of its call
    issued,         \* history: refresh_tokens.id -> how that record was issued
    spent,          \* history: ids of the records a Refresh returned a pair for
    boot            \* the process: its environment, its phase, its configuration

vars ==
    <<users, userSeq, refreshTokens, tokenSeq, now, calls, proc, issued, spent,
      boot>>

\* ---------------------------------------------------------- password hash
\* hash.HashPassword / hash.CheckPasswordHash (salted one-way hash).
HashPassword(password, salt) == [plain |-> password, salt |-> salt]
CheckPasswordHash(password, h) == h.salt # 0 /\ h.plain = password

\* ---------------------------------------------------------- token manager
\* The claims iat and exp are whole seconds.
GenerateAccessToken(secretKey, userID, duration, t) ==
    [alg |-> "HS256", sub |-> userID, iat |-> Unix(t),
     exp |-> Unix(t + duration), key |-> secretKey]

HMACMethods == {"HS256", "HS384", "HS512"}

\* Variant of ValidateToken that still accepts a token at its exp instant.
ValidateTokenAtExp(secretKey, tok, t) ==
    IF tok.alg \notin HMACMethods THEN <<0, InvalidTokenErr>>
    ELSE IF tok.key # secretKey THEN <<0, InvalidTokenErr>>
    ELSE IF t > Seconds(tok.exp) THEN <<0, ErrTokenExpired>>
    ELSE <<tok.sub, NilErr>>

\* ValidateToken at wall-clock time t: <<userID, err>>. jwt.Parse takes the
\* header and the claims apart, asks the key function for the key, checks
\* the signature and then the exp claim against the clock; the empty string
\* (NoAccess) is no token at all.
ValidateToken(secretKey, tok, t) ==
    IF tok.alg \notin HMACMethods THEN <<0, InvalidTokenErr>>
    ELSE IF tok.key # secretKey THEN <<0, InvalidTokenErr>>
    ELSE IF ~(t < Seconds(tok.exp)) THEN <<0, ErrTokenExpired>>
    ELSE <<tok.sub, NilErr>>

\* ---------------------------------------------------------- configuration
\* The text of an environment variable is a sequence of characters; <<>> is
\* the empty string, which os.Getenv also gives for a variable not set.
Digits == <<"0", "1", "2", "3", "4", "5", "6", "7", "8", "9">>
IsDigit(c) == \E i \in 1..10 : Digits[i] = c
DigitValue(c) == (CHOOSE i \in 1..10 : Digits[i] = c) - 1
\* The seconds in a unit of time.ParseDuration; 0 for what is no unit. The
\* units below a second and fractions are left out: no text here has them.
UnitSeconds(c) ==
    CASE c = "h" -> 3600 [] c = "m" -> 60 [] c = "s" -> 1 [] OTHER -> 0

\* time.ParseDuration after the sign: groups of digits and a unit. n is the
\* number being read, some whether a digit of it has been read.
RECURSIVE ParseGroups(_, _, _, _)
ParseGroups(s, acc, n, some) ==
    IF s = <<>>
    THEN IF some THEN [err |-> TRUE, d |-> 0] ELSE [err |-> FALSE, d |-> acc]
    ELSE IF IsDigit(Head(s))
    THEN ParseGroups(Tail(s), acc, 10 * n + DigitValue(Head(s)), TRUE)
    ELSE IF some /\ UnitSeconds(Head(s)) # 0
    THEN ParseGroups(Tail(s), acc + n * UnitSeconds(Head(s)), 0, FALSE)
    ELSE [err |-> TRUE, d |-> 0]

\* time.ParseDuration: [err, d], d in seconds.
TimeParseDuration(s) ==
    LET signed == s # <<>> /\ Head(s) \in {"-", "+"}
        rest == IF signed THEN Tail(s) ELSE s
        r == ParseGroups(rest, 0, 0, FALSE)
    IN IF rest = <<>> THEN [err |-> TRUE, d |-> 0]
       ELSE IF rest = <<"0">> THEN [err |-> FALSE, d |-> 0]
       ELSE IF r.err THEN r
       ELSE IF signed /\ Head(s) = "-" THEN [err |-> FALSE, d |-> 0 - r.d]
       ELSE r

\* config.parseDuration: a duration on the clock.
parseDuration(s) ==
    LET r == TimeParseDuration(s)
    IN IF r.err THEN Seconds(15 * 60) ELSE Seconds(r.d)

\* config.getEnv
getEnv(env, key, fallback) == IF env[key] # <<>> THEN env[key] ELSE fallback

\* config.NewFromEnv, without the two ports.
NewFromEnv(env) ==
    [DatabaseURL |-> env.DATABASE_URL,
     JWTSecret |-> env.JWT_SECRET,
     AccessTokenTTL |->
         parseDuration(getEnv(env, "ACCESS_TOKEN_TTL", <<"1", "5", "m">>)),
     RefreshTokenTTL |->
         parseDuration(getEnv(env, "REFRESH_TOKEN_TTL", <<"1", "6", "8", "h">>))]

NoConfig ==
    [DatabaseURL |-> "", JWTSecret |-> "", AccessTokenTTL |-> 0,
     RefreshTokenTTL |-> 0]

\* Variant of Boot without the two checks of the configuration.
BootUnchecked(env, connected) ==
    LET cfg == NewFromEnv(env)
        exit == [env |-> env, phase |-> "exited", cfg |-> cfg,
                 accessTTL |-> 0, refreshTTL |-> 0, created |-> {},
                 secretKey |-> ""]
    IN IF ~connected THEN exit
       ELSE [env |-> env, phase |-> "running", cfg |-> cfg,
             accessTTL |-> cfg.AccessTokenTTL,
             refreshTTL |-> cfg.RefreshTokenTTL,
             created |-> {"tokenManager", "grpc", "http"},
             secretKey |-> cfg.JWTSecret]

\* main, from the environment to the servers made or the exit: connected
\* tells whether pgxpool.New succeeded. accessTTL and refreshTTL are the
\* lifetimes handed to NewAuthUseCase for minting; created names what main
\* has constructed, the token manager (on secretKey) and the two servers.
Boot(env, connected) ==
    LET cfg == NewFromEnv(env)
        exit == [env |-> env, phase |-> "exited", cfg |-> cfg,
                 accessTTL |-> 0, refreshTTL |-> 0, created |-> {},
                 secretKey |-> ""]
    IN IF cfg.JWTSecret = "" THEN exit
       ELSE IF cfg.DatabaseURL = "" THEN exit
       ELSE IF ~connected THEN exit
       ELSE [env |-> env, phase |-> "running", cfg |-> cfg,
             accessTTL |-> cfg.AccessTokenTTL,
             refreshTTL |-> cfg.RefreshTokenTTL,
             created |-> {"tokenManager", "grpc", "http"},
             secretKey |-> cfg.JWTSecret]

\* The use case main constructs with four arguments: the lifetimes it mints
\* an access token and a refresh record with are the configured ones.
MintingTTL(b) == [access |-> b.accessTTL, refresh |-> b.refreshTTL]

\* Environments: the secret and the database URL set or not, the two
\* lifetimes not set, set to Go durations, or set to texts that are none.
DurationTexts ==
    {<<>>, <<"1", "5", "m">>, <<"1", "6", "8", "h">>, <<"1", "h", "3", "0", "m">>,
     <<"7", "d">>, <<"9", "0", "0">>, <<"-", "1", "h">>}
Envs ==
    [JWT_SECRET : {"", SecretKey}, DATABASE_URL : {"", "postgres://db/auth"},
     ACCESS_TOKEN_TTL : DurationTexts, REFRESH_TOKEN_TTL : DurationTexts]
\* The environment of a deployment that sets what it must and no more.
PlainEnv ==
    [JWT_SECRET |-> SecretKey, DATABASE_URL |-> "postgres://db/auth",
     ACCESS_TOKEN_TTL |-> <<>>, REFRESH_TOKEN_TTL |-> <<>>]

\* ------------------------------------------------------- user repository
GetByEmail(us, email) ==
    IF \E u \in us : u.Email = email
    THEN CHOOSE u \in us : u.Email = email
    ELSE NoUser

\* Variant of CreateViolatesUnique for a users table without the index.
CreateNoUniqueIndex(us, email) == FALSE

\* INSERT INTO users: the UNIQUE(email) constraint decides.
CreateViolatesUnique(us, email) == \E u \in us : u.Email = email

GetRefreshToken(rows, token) == {r \in rows : r.token = token}

DeleteRefreshToken(rows, token) == {r \in rows : r.token # token}

\* Variant of SaveViolatesConstraint for a table without UNIQUE(token).
SaveNoUniqueToken(rows, us, userID, token) == ~\E u \in us : u.ID = userID

\* INSERT INTO refresh_tokens: UNIQUE(token) and the foreign key decide.
SaveViolatesConstraint(rows, us, userID, token) ==
    \/ \E r \in rows : r.token = token
    \/ ~\E u \in us : u.ID = userID

\* Variant of SaveRefreshToken that keeps one record per user.
SaveRefreshTokenSingle(rows, id, userID, token, expiresAt) ==
    {r \in rows : r.user_id # userID}
        \cup {[id |-> id, user_id |-> userID, token |-> token,
                expires_at |-> expiresAt]}

\* INSERT INTO refresh_tokens, once the constraints have let it through.
SaveRefreshToken(rows, id, userID, token, expiresAt) ==
    rows \cup {[id |-> id, user_id |-> userID, token |-> token,
                expires_at |-> expiresAt]}

\* ------------------------------------------------------------- use cases
\* A handler at rest. The fields from storeErr on are history: they record
\* what the call met, for the properties below, and no decision of the
\* code reads them.
\* A request body that is no JSON object (empty, cut short, or a field of
\* the wrong type); otherwise the decoded fields, "" for a field left out.
NotJSON ==
    [json |-> FALSE, username |-> "", email |-> "", password |-> "",
     refresh_token |-> ""]

\* No gRPC answer has been made: a nil response and a nil error.
NoReplyMessage == [code |-> "", message |-> "", Valid |-> FALSE, UserId |-> 0]

Idle ==
    [pc |-> "idle", op |-> "none", username |-> "", email |-> "",
     password |-> "", hash |-> NoUser.PasswordHash,
     token |-> NoRefresh, userID |-> 0, expiresAt |-> 0, subject |-> 0,
     access |-> NoAccess, refresh |-> NoRefresh, newExpiresAt |-> 0,
     presented |-> NoAccess, err |-> NilErr, pair |-> EmptyPair,
     response |-> NoResponse, storeErr |-> NilErr,
     found |-> 0, matched |-> 0, chain |-> 0, mintedAt |-> 0,
     fault |-> FALSE, expired |-> FALSE, saveFailed |-> FALSE,
     late |-> FALSE, dup |-> FALSE, body |-> NotJSON, invoked |-> FALSE,
     reply |-> NoReplyMessage, checkedAt |-> 0]

\* Variants of LoginCheck with a plausible slip: the lookup's miss reported
\* as such; the password never compared.
LoginCheckTellsUnknown(getErr, user, password) ==
    IF getErr # NilErr THEN ErrUserNotFound
    ELSE IF ~CheckPasswordHash(password, user.PasswordHash)
         THEN NewInvalidCredentials
    ELSE NilErr

LoginCheckSkipsPassword(getErr, user, password) ==
    IF getErr # NilErr THEN NewInvalidCredentials ELSE NilErr

\* Variant of LoginCheck that lets a failed lookup through.
LoginCheckUnknownPasses(getErr, user, password) ==
    IF getErr # NilErr THEN NilErr
    ELSE IF ~CheckPasswordHash(password, user.PasswordHash)
         THEN NewInvalidCredentials
    ELSE NilErr

\* Login, from the lookup's outcome to the password check.
LoginCheck(getErr, user, password) ==
    IF getErr # NilErr THEN NewInvalidCredentials
    ELSE IF ~CheckPasswordHash(password, user.PasswordHash)
         THEN NewInvalidCredentials
    ELSE NilErr

\* Refresh: the error for a lookup that failed.
RefreshLookupError(getErr) ==
    IF getErr # NilErr THEN NewInvalidRefreshToken ELSE NilErr

\* Variant of RefreshExpired that refuses a record at its expiry instant.
RefreshExpiredAtInstant(t, expiresAt) == t >= expiresAt

\* Refresh: time.Now().After(expiresAt)
RefreshExpired(t, expiresAt) == t > expiresAt

\* Variant of RefreshSubject that binds the new pair to another user.
RefreshSubjectOther(userID, expiresAt) == IF userID = 1 THEN 2 ELSE 1

\* Refresh: the subject handed to generatePair.
RefreshSubject(userID, expiresAt) == userID

\* Variant of PairResult that hands the minted pair out with the error.
PairResultKeepsPair(saveErr, access, refresh) ==
    [err |-> saveErr,
     pair |-> [AccessToken |-> access, RefreshToken |-> refresh]]

\* generatePair: what it returns once SaveRefreshToken has answered.
PairResult(saveErr, access, refresh) ==
    IF saveErr # NilErr
    THEN [err |-> saveErr, pair |-> EmptyPair]
    ELSE [err |-> NilErr,
          pair |-> [AccessToken |-> access, RefreshToken |-> refresh]]

\* Variant of RefreshExpiry that uses the access token's lifetime.
RefreshExpiryShort(t) == t + AccessTTL

\* generatePair: the expiry of the record it saves.
RefreshExpiry(t) == t + RefreshTTL

\* Variant of HandleError that puts the text of any error in the body.
HandleErrorWithText(err) ==
    IF ErrorsIs(err, ErrInvalidCredentials)
    THEN [status |-> 401, error |-> ErrorText(err), pair |-> EmptyPair]
    ELSE IF ErrorsIs(err, ErrRefreshTokenNotFound)
    THEN [status |-> 401, error |-> ErrorText(err), pair |-> EmptyPair]
    ELSE IF ErrorsIs(err, ErrEmailExists)
    THEN [status |-> 409, error |-> ErrorText(err), pair |-> EmptyPair]
    ELSE [status |-> 500, error |-> ErrorText(err), pair |-> EmptyPair]

\* AuthHandler.handleError: the response for an error of a use case.
HandleError(err) ==
    IF ErrorsIs(err, ErrInvalidCredentials)
    THEN [status |-> 401, error |-> ErrorText(err), pair |-> EmptyPair]
    ELSE IF ErrorsIs(err, ErrRefreshTokenNotFound)
    THEN [status |-> 401, error |-> ErrorText(err), pair |-> EmptyPair]
    ELSE IF ErrorsIs(err, ErrEmailExists)
    THEN [status |-> 409, error |-> ErrorText(err), pair |-> EmptyPair]
    ELSE [status |-> 500, error |-> "an internal server error occurred",
          pair |-> EmptyPair]

\* Variant of RegisterResponse that logs the new user in at once.
RegisterResponseWithPair(err) ==
    IF err # NilErr THEN HandleError(err)
    ELSE [status |-> 201, error |-> "",
          pair |-> [AccessToken |-> GenerateAccessToken(SecretKey, 1, AccessTTL, 0),
                    RefreshToken |-> "r1"]]

\* AuthHandler.Register, after the use case has answered.
RegisterResponse(err) ==
    IF err # NilErr THEN HandleError(err)
    ELSE [status |-> 201, error |-> "", pair |-> EmptyPair]

\* AuthHandler.Login and AuthHandler.Refresh, after the use case has answered.
PairResponse(err, pair) ==
    IF err # NilErr THEN HandleError(err)
    ELSE [status |-> 200, error |-> "", pair |-> pair]

\* The validator's email rule, on the texts a request may carry.
EmailRule(text) == text \in Emails

\* Variant of Validate without the minimum length of a new password.
ValidateNoMin(op, req) ==
    CASE op = "register" ->
            /\ req.username # ""
            /\ req.email # "" /\ EmailRule(req.email)
            /\ req.password # ""
      [] op = "login" ->
            /\ req.email # "" /\ EmailRule(req.email)
            /\ req.password # ""
      [] op = "refresh" -> req.refresh_token # ""

\* The binding tags of registerReq, loginReq and refreshReq.
Validate(op, req) ==
    CASE op = "register" ->
            /\ req.username # ""
            /\ req.email # "" /\ EmailRule(req.email)
            /\ req.password # "" /\ Len(req.password) >= 6
      [] op = "login" ->
            /\ req.email # "" /\ EmailRule(req.email)
            /\ req.password # ""
      [] op = "refresh" -> req.refresh_token # ""

\* gin's ShouldBindJSON: decode the body, then validate the struct.
ShouldBindJSON(op, body) ==
    IF ~body.json THEN "json: cannot decode body"
    ELSE IF ~Validate(op, body) THEN "validator: field validation failed"
    ELSE NilErr

\* A handler's answer to a body that did not bind.
BadRequest(rec) ==
    [rec EXCEPT !.pc = "done",
                !.response = [status |-> 400, error |-> "invalid request body",
                              pair |-> EmptyPair]]

\* The use case has answered; its HTTP handler, if it has one, writes the
\* response.
Done(rec, err, pair) ==
    [rec EXCEPT !.pc = "done", !.err = err, !.pair = pair,
                !.response = CASE rec.op = "register" -> RegisterResponse(err)
                               [] rec.op \in {"login", "refresh"} ->
                                      PairResponse(err, pair)
                               [] OTHER -> NoResponse]

\* generatePair up to the call of SaveRefreshToken: mint the access token,
\* draw the refresh value, compute the expiry.
MintPair(rec, userID, signOk, randOk, value) ==
    IF ~signOk THEN Done([rec EXCEPT !.fault = TRUE], SignError, EmptyPair)
    ELSE IF ~randOk THEN Done([rec EXCEPT !.fault = TRUE], RandError, EmptyPair)
    ELSE [rec EXCEPT !.pc = "save",
                     !.subject = userID,
                     !.access = GenerateAccessToken(SecretKey, userID, AccessTTL, now),
                     !.refresh = value,
                     !.newExpiresAt = RefreshExpiry(now),
                     !.mintedAt = now]

\* No response is waiting to be handed to its caller.
NoReply == \A q \in Procs : proc[q].pc # "done"

\* The service starts on a database that is empty or already holds a user
\* registered by an earlier run.
Init ==
    /\ \E seeded \in BOOLEAN :
         /\ users = IF seeded
                    THEN {[ID |-> 1, Username |-> "alice", Email |-> "a@x.com",
                           PasswordHash |-> HashPassword("secret1", 1)]}
                    ELSE {}
         /\ userSeq = IF seeded THEN 1 ELSE 0
    /\ refreshTokens = {}
    /\ tokenSeq = 0
    /\ now = 0
    /\ calls = 0
    /\ proc = [p \in Procs |-> Idle]
    /\ issued = <<>>
    /\ spent = {}
    /\ boot = Boot(PlainEnv, TRUE)

\* A new call is taken by the first free handler (handlers are alike).
Begin(p) ==
    /\ boot.phase = "running"
    /\ NoReply
    /\ proc[p].pc = "idle"
    /\ \A q \in Procs : q < p => proc[q].pc # "idle"
    /\ calls < MaxCalls
    /\ calls' = calls + 1

\* Variant of InsertUser written as an upsert on the username.
InsertUserReplacing(us, user) ==
    {u \in us : u.Username # user.Username} \cup {user}

\* The users table after the INSERT of UserRepo.Create has succeeded.
InsertUser(us, user) == us \cup {user}

\* AuthUseCase.Register up to UserRepo.Create: the password is hashed.
Register(p, username, email, password) ==
    /\ Begin(p)
    /\ \E hashOk \in BOOLEAN, salt \in Salts :
         LET rec == [Idle EXCEPT !.op = "register", !.invoked = TRUE,
                                 !.username = username,
                                 !.email = email, !.password = password,
                                 !.late = GetByEmail(users, email) # NoUser]
         IN proc' = [proc EXCEPT ![p] =
                        IF ~hashOk
                        THEN Done([rec EXCEPT !.fault = TRUE], HashError, EmptyPair)
                        ELSE [rec EXCEPT !.pc = "create",
                                         !.hash = HashPassword(password, salt)]]
    /\ UNCHANGED <<users, userSeq, refreshTokens, tokenSeq, now, issued,
                   spent, boot>>

\* AuthUseCase.Register, the repository call: UserRepo.Create, one INSERT,
\* whose error is what Register returns.
Create(p) ==
    /\ NoReply
    /\ proc[p].pc = "create"
    /\ \E dbOk \in BOOLEAN :
         LET me == proc[p]
         IN IF ~dbOk
            THEN /\ proc' = [proc EXCEPT ![p] =
                               Done([me EXCEPT !.fault = TRUE,
                                               !.storeErr = PgConnError],
                                    PgConnError, EmptyPair)]
                 /\ UNCHANGED <<users, userSeq>>
            ELSE IF CreateViolatesUnique(users, me.email)
            THEN /\ proc' = [proc EXCEPT ![p] =
                               Done([me EXCEPT !.found = GetByEmail(users, me.email).ID],
                                    PgUniqueViolation, EmptyPair)]
                 /\ userSeq' = userSeq + 1
                 /\ UNCHANGED users
            ELSE /\ proc' = [proc EXCEPT ![p] =
                               Done([me EXCEPT !.userID = userSeq + 1], NilErr, EmptyPair)]
                 /\ userSeq' = userSeq + 1
                 /\ users' = InsertUser(users,
                       [ID |-> userSeq + 1, Username |-> me.username,
                        Email |-> me.email, PasswordHash |-> me.hash])
    /\ UNCHANGED <<refreshTokens, tokenSeq, now, calls, issued, spent, boot>>

\* AuthUseCase.Login up to SaveRefreshToken: GetByEmail, the password
\* check, and the minting part of generatePair.
LoginGet(p, email, password) ==
    /\ Begin(p)
    /\ \E dbOk \in BOOLEAN, signOk \in BOOLEAN, randOk \in BOOLEAN,
          value \in RefreshValues :
         LET user == IF dbOk THEN GetByEmail(users, email) ELSE NoUser
             getErr == IF ~dbOk THEN PgConnError
                       ELSE IF user = NoUser THEN PgNoRows ELSE NilErr
             err == LoginCheck(getErr, user, password)
             rec == [Idle EXCEPT !.op = "login", !.invoked = TRUE,
                                 !.email = email,
                                 !.password = password, !.userID = user.ID,
                                 !.found = user.ID, !.chain = user.ID,
                                 !.fault = ~dbOk,
                                 !.storeErr = IF dbOk THEN NilErr ELSE getErr]
         IN proc' = [proc EXCEPT ![p] =
                        IF err # NilErr THEN Done(rec, err, EmptyPair)
                        ELSE MintPair(rec, user.ID, signOk, randOk, value)]
    /\ UNCHANGED <<users, userSeq, refreshTokens, tokenSeq, now, issued,
                   spent, boot>>

\* AuthUseCase.Refresh, first repository call: GetRefreshToken.
RefreshGet(p, token) ==
    /\ Begin(p)
    /\ \E dbOk \in BOOLEAN :
         LET rows == IF dbOk THEN GetRefreshToken(refreshTokens, token) ELSE {}
             getErr == IF ~dbOk THEN PgConnError
                       ELSE IF rows = {} THEN PgNoRows ELSE NilErr
             err == RefreshLookupError(getErr)
             rec == [Idle EXCEPT !.op = "refresh", !.invoked = TRUE,
                                 !.token = token,
                                 !.fault = ~dbOk,
                                 !.storeErr = IF dbOk THEN NilErr ELSE getErr]
         IN proc' = [proc EXCEPT ![p] =
                        IF err # NilErr THEN Done(rec, err, EmptyPair)
                        ELSE LET r == CHOOSE r \in rows : TRUE
                             IN [rec EXCEPT !.pc = "refresh_delete",
                                            !.userID = r.user_id,
                                            !.expiresAt = r.expires_at,
                                            !.matched = r.id,
                                            !.chain = issued[r.id].origin,
                                            !.late = r.id \in spent]]
    /\ UNCHANGED <<users, userSeq, refreshTokens, tokenSeq, now, issued,
                   spent, boot>>

\* AuthUseCase.Refresh, from the expiry check to SaveRefreshToken:
\* DeleteRefreshToken with its error discarded, then the minting part of
\* generatePair.
RefreshDelete(p) ==
    /\ NoReply
    /\ proc[p].pc = "refresh_delete"
    /\ \E dbOk \in BOOLEAN, signOk \in BOOLEAN, randOk \in BOOLEAN,
          value \in RefreshValues :
         LET rec == [proc[p] EXCEPT !.fault = @ \/ ~dbOk,
                                    !.storeErr = IF dbOk THEN @ ELSE PgConnError,
                                    !.expired = now > proc[p].expiresAt,
                                    !.checkedAt = now]
         IN /\ refreshTokens' =
                  IF dbOk THEN DeleteRefreshToken(refreshTokens, proc[p].token)
                  ELSE refreshTokens
            /\ proc' = [proc EXCEPT ![p] =
                          IF RefreshExpired(now, proc[p].expiresAt)
                          THEN Done(rec, NewRefreshTokenExpired, EmptyPair)
                          ELSE MintPair(rec,
                                        RefreshSubject(proc[p].userID, proc[p].expiresAt),
                                        signOk, randOk, value)]
    /\ UNCHANGED <<users, userSeq, tokenSeq, now, calls, issued, spent, boot>>

\* generatePair, the repository call: SaveRefreshToken, then the return.
Save(p) ==
    /\ NoReply
    /\ proc[p].pc = "save"
    /\ \E dbOk \in BOOLEAN :
         LET me == proc[p]
             saveErr == IF ~dbOk THEN PgConnError
                        ELSE IF SaveViolatesConstraint(refreshTokens, users,
                                                       me.subject, me.refresh)
                             THEN PgUniqueViolation
                        ELSE NilErr
             res == PairResult(saveErr, me.access, me.refresh)
             id == tokenSeq + 1
             consumed == me.op = "refresh" /\ res.pair # EmptyPair
         IN /\ tokenSeq' = IF dbOk THEN id ELSE tokenSeq
            /\ refreshTokens' =
                  IF saveErr = NilErr
                  THEN SaveRefreshToken(refreshTokens, id, me.subject, me.refresh,
                                        me.newExpiresAt)
                  ELSE refreshTokens
            /\ issued' =
                  IF saveErr = NilErr
                  THEN issued @@ (id :> [via |-> me.op, origin |-> me.chain,
                                         access |-> me.access])
                  ELSE issued
            /\ spent' = IF consumed THEN spent \cup {me.matched} ELSE spent
            /\ proc' = [proc EXCEPT ![p] =
                          Done([me EXCEPT !.fault = @ \/ saveErr # NilErr,
                                          !.storeErr = IF dbOk THEN @ ELSE saveErr,
                                          !.saveFailed = saveErr # NilErr,
                                          !.dup = consumed /\ me.matched \in spent],
                               res.err, res.pair)]
    /\ UNCHANGED <<users, userSeq, now, calls, boot>>

\* The response leaves the handler, which is free again. A finished call's
\* response is handed over before any other step is taken.
Return(p) ==
    /\ proc[p].pc = "done"
    /\ proc' = [proc EXCEPT ![p] = Idle]
    /\ UNCHANGED <<users, userSeq, refreshTokens, tokenSeq, now, calls,
                   issued, spent, boot>>

\* The wall clock moves forward.
Tick ==
    /\ NoReply
    /\ \E t \in Instants : t > now /\ now' = t
    /\ UNCHANGED <<users, userSeq, refreshTokens, tokenSeq, calls, proc,
                   issued, spent, boot>>

\* ----------------------------------------------------------------- Verify
\* The receiver of the use case methods: the repository it reaches the
\* tables through and the token manager with its secret.
UseCase ==
    [repo |-> [users |-> users, refreshTokens |-> refreshTokens],
     tokenManager |-> [secretKey |-> SecretKey]]

\* Variant of Verify that looks the subject up in the users table.
VerifyKnownUser(uc, token, t) ==
    LET res == ValidateToken(uc.tokenManager.secretKey, token, t)
    IN IF res[2] = NilErr /\ ~\E u \in uc.repo.users : u.ID = res[1]
       THEN <<0, ErrUserNotFound>>
       ELSE res

\* Variant of Verify that accepts a token only while its subject still
\* has a stored refresh record.
VerifyLiveSession(uc, token, t) ==
    LET res == ValidateToken(uc.tokenManager.secretKey, token, t)
    IN IF res[2] = NilErr
          /\ ~\E r \in uc.repo.refreshTokens : r.user_id = res[1]
       THEN <<0, ErrUserNotFound>>
       ELSE res

\* AuthUseCase.Verify at wall-clock time t.
Verify(uc, token, t) == ValidateToken(uc.tokenManager.secretKey, token, t)

\* Variant of VerifyToken that answers a failure in the response message.
VerifyTokenValidFalse(userID, err) ==
    IF err # NilErr
    THEN [code |-> "OK", message |-> "", Valid |-> FALSE, UserId |-> 0]
    ELSE [code |-> "OK", message |-> "", Valid |-> TRUE, UserId |-> userID]

\* Server.VerifyToken, after the use case's Verify has answered: the gRPC
\* status and the response message (nil beside an error).
VerifyToken(userID, err) ==
    IF err # NilErr
    THEN IF ErrorsIs(err, ErrTokenExpired)
         THEN [code |-> "Unauthenticated", message |-> "token has expired",
               Valid |-> FALSE, UserId |-> 0]
         ELSE [code |-> "Unauthenticated", message |-> "invalid token",
               Valid |-> FALSE, UserId |-> 0]
    ELSE [code |-> "OK", message |-> "", Valid |-> TRUE, UserId |-> userID]

\* The tokens presented to Verify: the claims of a token minted for a user
\* at an instant, under each algorithm name and signed with each key, and
\* the empty string.
PresentedTokens ==
    {[tok |-> [GenerateAccessToken(k, u, AccessTTL, t) EXCEPT !.alg = a],
      mintedAt |-> t] :
        a \in Algorithms, k \in Keys, u \in Subjects, t \in MintInstants}
    \cup {[tok |-> NoAccess, mintedAt |-> 0]}

\* A call of Verify, by the first free handler, with a token made earlier.
VerifyCall(p, input) ==
    /\ boot.phase = "running"
    /\ NoReply
    /\ proc[p].pc = "idle"
    /\ \A q \in Procs : q < p => proc[q].pc # "idle"
    /\ input.mintedAt <= now
    /\ LET res == Verify(UseCase, input.tok, now)
       IN proc' = [proc EXCEPT ![p] =
                      Done([Idle EXCEPT !.op = "verify",
                                        !.presented = input.tok,
                                        !.mintedAt = input.mintedAt,
                                        !.userID = res[1],
                                        !.reply = VerifyToken(res[1], res[2])],
                           res[2], EmptyPair)]
    /\ UNCHANGED <<users, userSeq, refreshTokens, tokenSeq, now, calls,
                   issued, spent, boot>>

\* Verify is called at any instant, on a database that is empty, holds a
\* user, or holds a user and the refresh record of a Login at instant 0.
VerifyInit ==
    /\ \E seeded \in BOOLEAN, logged \in BOOLEAN :
         /\ logged => seeded
         /\ users = IF seeded
                    THEN {[ID |-> 1, Username |-> "alice", Email |-> "a@x.com",
                           PasswordHash |-> HashPassword("secret1", 1)]}
                    ELSE {}
         /\ userSeq = IF seeded THEN 1 ELSE 0
         /\ refreshTokens =
               IF logged
               THEN SaveRefreshToken({}, 1, 1, "r1", RefreshExpiry(0))
               ELSE {}
         /\ tokenSeq = IF logged THEN 1 ELSE 0
         /\ issued =
               IF logged
               THEN 1 :> [via |-> "login", origin |-> 1,
                          access |-> GenerateAccessToken(SecretKey, 1, AccessTTL, 0)]
               ELSE <<>>
    /\ now \in VerifyInstants
    /\ calls = 0
    /\ proc = [p \in Procs |-> Idle]
    /\ spent = {}
    /\ boot = Boot(PlainEnv, TRUE)

VerifyNext ==
    \/ \E p \in Procs, input \in PresentedTokens : VerifyCall(p, input)
    \/ \E p \in Procs : Return(p)

\* ----------------------------------------------------------- HTTP handlers
\* What an implementation of the handlers' AuthUseCase interface may answer:
\* nil or any error, and for Login and Refresh a pair.
UseCaseErrors ==
    {NilErr, ErrInvalidCredentials, ErrUserNotFound, ErrRefreshTokenNotFound,
     ErrTokenExpired, ErrEmailExists, NewInvalidCredentials,
     NewInvalidRefreshToken, NewRefreshTokenExpired, PgNoRows,
     PgUniqueViolation, PgConnError, HashError, SignError, RandError,
     InvalidTokenErr}
UseCasePairs ==
    {EmptyPair,
     [AccessToken |-> GenerateAccessToken(SecretKey, 1, AccessTTL, 0),
      RefreshToken |-> "r1"]}

\* The request bodies: no JSON, and objects with each field left out, ill
\* formed or well formed.
Bodies ==
    {NotJSON} \cup
    [json : {TRUE}, username : {"", "alice"},
     email : {"", "a@x.com", "not-an-email"},
     password : {"", "12345", "secret1"}, refresh_token : {"", "r1"}]

\* AuthHandler.Register, Login or Refresh on a request body, around a use
\* case that answers with err and pair when it is called.
Handle(p, op, body, err, pair) ==
    /\ boot.phase = "running"
    /\ NoReply
    /\ proc[p].pc = "idle"
    /\ \A q \in Procs : q < p => proc[q].pc # "idle"
    /\ op = "register" => pair = EmptyPair
    /\ LET rec == [Idle EXCEPT !.op = op, !.body = body]
       IN proc' = [proc EXCEPT ![p] =
                      IF ShouldBindJSON(op, body) # NilErr
                      THEN BadRequest(rec)
                      ELSE Done([rec EXCEPT !.invoked = TRUE], err, pair)]
    /\ UNCHANGED <<users, userSeq, refreshTokens, tokenSeq, now, calls,
                   issued, spent, boot>>

HTTPNext ==
    \/ \E p \in Procs, op \in {"register", "login", "refresh"},
          body \in Bodies, err \in UseCaseErrors, pair \in UseCasePairs :
            Handle(p, op, body, err, pair)
    \/ \E p \in Procs : Return(p)

\* ---------------------------------------------------------------- startup
\* The process has been started in some environment and main has not run.
StartInit ==
    /\ users = {}
    /\ userSeq = 0
    /\ refreshTokens = {}
    /\ tokenSeq = 0
    /\ now = 0
    /\ calls = 0
    /\ proc = [p \in Procs |-> Idle]
    /\ issued = <<>>
    /\ spent = {}
    /\ \E env \in Envs :
         boot = [env |-> env, phase |-> "off", cfg |-> NoConfig,
                 accessTTL |-> 0, refreshTTL |-> 0, created |-> {},
                 secretKey |-> ""]

\* main up to the servers' start; listening tells whether net.Listen
\* succeeded, after the token manager and the gRPC server were made.
Start ==
    /\ boot.phase = "off"
    /\ \E connected \in BOOLEAN, listening \in BOOLEAN :
         LET b == Boot(boot.env, connected)
         IN boot' = IF b.phase = "running" /\ ~listening
                    THEN [b EXCEPT !.phase = "exited",
                                   !.created = {"tokenManager", "grpc"}]
                    ELSE b
    /\ UNCHANGED <<users, userSeq, refreshTokens, tokenSeq, now, calls, proc,
                   issued, spent>>

StartNext == Start

Next ==
    \/ \E p \in Procs, u \in Usernames, e \in Emails, pw \in Passwords :
          Register(p, u, e, pw)
    \/ \E p \in Procs : Create(p)
    \/ \E p \in Procs, e \in Emails, pw \in Passwords : LoginGet(p, e, pw)
    \/ \E p \in Procs, t \in RefreshValues : RefreshGet(p, t)
    \/ \E p \in Procs : RefreshDelete(p)
    \/ \E p \in Procs : Save(p)
    \/ \E p \in Procs : Return(p)
    \/ Tick

\* ------------------------------------------------------------ properties
Returned(p, op) == proc[p].pc = "done" /\ proc[p].op = op
GotPair(p) == proc[p].pc = "done" /\ proc[p].pair # EmptyPair
Stored(id) == \E r \in refreshTokens : r.id = id
UserOf(email) == GetByEmail(users, email)

\* C1: of two concurrent Refresh calls presenting the same stored, unexpired
\* refresh credential, at most one returns a pair: no Refresh that began
\* before the other returned gets a pair for a record that has already
\* given a pair to another Refresh.
C1_OneOfTwoConcurrentRefreshes ==
    \A p \in Procs :
        (Returned(p, "refresh") /\ GotPair(p) /\ ~proc[p].late) => ~proc[p].dup

\* C2: once a Refresh presenting the credential R has returned a pair, every
\* Refresh with R that begins later fails.
C2_SpentRefreshRejectedLater ==
    \A p \in Procs :
        (Returned(p, "refresh") /\ proc[p].late) =>
            (proc[p].err # NilErr /\ proc[p].pair = EmptyPair)

\* C3: when a Refresh that matched a stored record has returned, with a pair
\* or with an error, that record is no longer in the store.
C3_MatchedRecordGone ==
    \A p \in Procs :
        (Returned(p, "refresh") /\ proc[p].matched # 0) => ~Stored(proc[p].matched)

\* C4: a Refresh presenting a stored credential whose expiry has passed fails
\* with RefreshTokenNotFound, returns no pair and removes the record.
C4_ExpiredRefresh ==
    \A p \in Procs :
        (Returned(p, "refresh") /\ proc[p].expired) =>
            /\ ErrorsIs(proc[p].err, ErrRefreshTokenNotFound)
            /\ proc[p].pair = EmptyPair
            /\ ~Stored(proc[p].matched)

\* The two ways a Login is refused for its credentials.
UnknownEmail(p) ==
    Returned(p, "login") /\ ~proc[p].fault /\ proc[p].found = 0
WrongPassword(p) ==
    /\ Returned(p, "login")
    /\ proc[p].found # 0
    /\ UserOf(proc[p].email).PasswordHash.plain # proc[p].password

C7_ReturnedRefreshIsStored ==
    \A p \in Procs :
        (proc[p].op \in {"login", "refresh"} /\ GotPair(p)) =>
            \E r \in refreshTokens :
                /\ r.token = proc[p].pair.RefreshToken
                /\ r.user_id = proc[p].userID
                /\ r.expires_at = proc[p].mintedAt + RefreshTTL
C7_Witness == \E p \in Procs : Returned(p, "refresh") /\ GotPair(p)

\* C8: a Login or Refresh whose SaveRefreshToken call fails returns an error
\* and the empty pair, and the failed call leaves no record behind.
C8_FailedSaveReturnsNothing ==
    [][\A p \in Procs :
          (proc[p].pc = "save" /\ proc'[p].pc = "done" /\ proc'[p].saveFailed) =>
              /\ proc'[p].err # NilErr
              /\ proc'[p].pair = EmptyPair
              /\ refreshTokens' = refreshTokens]_vars
C8_Witness ==
    \E p \in Procs : proc[p].pc = "done" /\ proc[p].saveFailed /\ proc[p].op = "refresh"

\* C9: every stored refresh record is bound to the user whose Login began
\* its chain, and the access token of every pair returned by Login or by a
\* Refresh down that chain verifies, until it expires, to that user.
C9_ChainKeepsSubject ==
    /\ \A r \in refreshTokens : r.user_id = issued[r.id].origin
    /\ \A p \in Procs :
          (proc[p].op \in {"login", "refresh"} /\ GotPair(p)) =>
              LET v == ValidateToken(SecretKey, proc[p].pair.AccessToken, now)
              IN /\ proc[p].chain # 0
                 /\ proc[p].op = "login" => proc[p].chain = UserOf(proc[p].email).ID
                 /\ v = <<proc[p].chain, NilErr>> \/ v = <<0, ErrTokenExpired>>
C9_Witness ==
    \E p \in Procs :
        /\ Returned(p, "refresh") /\ GotPair(p)
        /\ issued[proc[p].matched].via = "refresh"
        /\ ValidateToken(SecretKey, proc[p].pair.AccessToken, now)
              = <<proc[p].chain, NilErr>>

\* C10: the pair a Refresh returns for the refresh value of a Login's pair
\* differs from that pair in both tokens, whenever the two calls are made.
C10_RefreshedPairDiffers ==
    \A p \in Procs :
        (Returned(p, "refresh") /\ GotPair(p)
            /\ issued[proc[p].matched].via = "login") =>
            /\ proc[p].pair.AccessToken # issued[proc[p].matched].access
            /\ proc[p].pair.RefreshToken # proc[p].token

\* ------------------------------------------------------------------ Verify
\* A token as GenerateAccessToken made it for its subject at mintedAt.
Genuine(p) ==
    proc[p].presented =
        GenerateAccessToken(SecretKey, proc[p].presented.sub, AccessTTL,
                            proc[p].mintedAt)
Accepted(p) ==
    proc[p].userID = proc[p].presented.sub /\ proc[p].err = NilErr
RejectedAs(p, err) == proc[p].userID = 0 /\ proc[p].err = err

\* C11 as stated: an access token minted at instant t with lifetime d
\* verifies at every instant before t + d and fails with ErrTokenExpired at
\* every instant from t + d on.
C11_ExpiresAtMintPlusTTL ==
    \A p \in Procs :
        (Returned(p, "verify") /\ Genuine(p)) =>
            IF now < proc[p].mintedAt + AccessTTL
            THEN Accepted(p)
            ELSE RejectedAs(p, ErrTokenExpired)

\* C11, amended: an access token minted at instant t with lifetime d verifies
\* at every instant before the whole second t + d falls in and fails with
\* ErrTokenExpired at every instant from that whole second on; the expiry
\* is taken against the clock at the time of the verification.
C11_ExpiresAtWholeSecond ==
    \A p \in Procs :
        (Returned(p, "verify") /\ Genuine(p)) =>
            IF now < Seconds(Unix(proc[p].mintedAt + AccessTTL))
            THEN Accepted(p)
            ELSE RejectedAs(p, ErrTokenExpired)
C11_Witness ==
    \E p \in Procs :
        /\ Returned(p, "verify") /\ Genuine(p)
        /\ proc[p].mintedAt = 1
        /\ now = AccessTTL
        /\ RejectedAs(p, ErrTokenExpired)

\* ---------------------------------------------------------------- Register
\* A handler's step to the answer of a Register.
RegisterStep(p) ==
    proc[p].pc # "done" /\ proc'[p].pc = "done" /\ proc'[p].op = "register"

\* C12: a Register whose email already belongs to a user fails with
\* ErrEmailExists, which the HTTP handler answers with 409, and leaves the
\* table of users, the first user's record with it, as it was.
C12_TakenEmailIsEmailExists ==
    [][\A p \in Procs :
          (RegisterStep(p) /\ proc'[p].found # 0) =>
              /\ ErrorsIs(proc'[p].err, ErrEmailExists)
              /\ proc'[p].response.status = 409
              /\ users' = users]_vars

\* C13: in every reachable state no two user records share an email, so of
\* any Register calls under way with one email at most one creates a user.
C13_EmailsUnique ==
    \A u1 \in users, u2 \in users : u1.Email = u2.Email => u1 = u2
\* A Register whose email was free when it began and taken, by a Register
\* under way beside it, when its INSERT ran.
C13_Witness ==
    \E p \in Procs :
        /\ Returned(p, "register") /\ proc[p].found # 0 /\ ~proc[p].late
        /\ proc[p].err # NilErr
        /\ Cardinality({u \in users : u.Email = proc[p].email}) = 1

\* C14: no step of a Register, whether it ends well or not, changes the
\* table of refresh records, mints an access token or returns a pair, and
\* the HTTP response to it carries no token.
C14_RegisterIssuesNoToken ==
    [][\A p \in Procs :
          (proc'[p].op = "register" /\ proc'[p] # proc[p]) =>
              /\ refreshTokens' = refreshTokens
              /\ tokenSeq' = tokenSeq
              /\ proc'[p].access = NoAccess
              /\ proc'[p].refresh = NoRefresh
              /\ proc'[p].pair = EmptyPair
              /\ proc'[p].response.pair = EmptyPair]_vars
C14_Witness ==
    \E p \in Procs :
        /\ Returned(p, "register")
        /\ proc[p].err = NilErr
        /\ proc[p].response = [status |-> 201, error |-> "", pair |-> EmptyPair]
        /\ refreshTokens # {}

\* C15: a call of Verify changes neither table, and what it returns is
\* what the token, the secret and the clock alone decide, whatever the
\* tables hold.
C15_VerifyTouchesNoStore ==
    [][\A p \in Procs :
          (proc[p].pc = "idle" /\ proc'[p].op = "verify") =>
              /\ <<users', userSeq', refreshTokens', tokenSeq'>>
                    = <<users, userSeq, refreshTokens, tokenSeq>>
              /\ <<proc'[p].userID, proc'[p].err>>
                    = ValidateToken(SecretKey, proc'[p].presented, now)]_vars
\* A user's token is accepted on tables that hold no user and no record.
C15_Witness ==
    \E p \in Procs :
        /\ Returned(p, "verify") /\ Genuine(p) /\ Accepted(p)
        /\ users = {} /\ refreshTokens = {}

\* C16: Verify rejects as invalid every token whose header names an
\* algorithm other than HS256, the one GenerateAccessToken signs with, also
\* when the token is signed with the right secret under HS384 or HS512.
C16_OnlyIssuerAlgorithm ==
    \A p \in Procs :
        (Returned(p, "verify") /\ proc[p].presented # NoAccess
            /\ proc[p].presented.alg # "HS256") =>
            RejectedAs(p, InvalidTokenErr)

\* Signed by GenerateAccessToken's algorithm with the manager's secret.
IssuerSigned(tok) ==
    tok # NoAccess /\ tok.alg = "HS256" /\ tok.key = SecretKey

\* C17: Verify fails with ErrTokenExpired exactly for a token that is well
\* formed, signed as the issuer signs and past its expiry; it fails with the
\* other error, the invalid token, for a bad signature, the empty string or
\* an algorithm that is not the issuer's; and it returns no subject with an
\* error.
C17_ExpiredOrInvalid ==
    \A p \in Procs :
        Returned(p, "verify") =>
            LET tok == proc[p].presented
                past == ~(now < Seconds(tok.exp))
            IN /\ proc[p].err = ErrTokenExpired <=> (IssuerSigned(tok) /\ past)
               /\ ~IssuerSigned(tok) => proc[p].err = InvalidTokenErr
               /\ InvalidTokenErr # ErrTokenExpired
               /\ proc[p].err # NilErr => proc[p].userID = 0

\* The store error a finished call met: a failure of the connection or a
\* cancelled context, not a miss and not a uniqueness violation.
StoreFailed(p) == proc[p].pc = "done" /\ proc[p].storeErr # NilErr

\* C18: a Register, Login or Refresh that met a store failure returns that
\* failure as its error, not an error of the domain's texts, and the HTTP
\* handler answers it as an internal error.
C18_StoreFailureSurfaces ==
    \A p \in Procs :
        StoreFailed(p) =>
            /\ proc[p].err = proc[p].storeErr
            /\ ErrorText(proc[p].err) \notin
                  {"invalid credentials", "invalid refresh token",
                   "invalid or expired refresh token", "refresh token expired"}
            /\ proc[p].response.status = 500

\* ------------------------------------------------------------ HTTP errors
\* C19: the HTTP handlers answer an error of the use case by its kind alone:
\* ErrInvalidCredentials and ErrRefreshTokenNotFound with 401, ErrEmailExists
\* with 409, any other error with 500 and the fixed text, so that the text
\* of an error of no such kind is in no body; and no token goes out with an
\* error.
C19_ErrorsMapToStatus ==
    \A p \in Procs :
        (proc[p].pc = "done" /\ proc[p].op \in {"register", "login", "refresh"}
            /\ proc[p].err # NilErr) =>
            LET err == proc[p].err
                r == proc[p].response
            IN /\ r.status =
                    CASE err \in {ErrInvalidCredentials, ErrRefreshTokenNotFound} -> 401
                      [] err = ErrEmailExists -> 409
                      [] OTHER -> 500
               /\ r.status = 500 =>
                     /\ r.error = "an internal server error occurred"
                     /\ r.error # ErrorText(err)
               /\ r.pair = EmptyPair
C19_Witness ==
    \E p \in Procs :
        /\ Returned(p, "login")
        /\ proc[p].err = PgConnError
        /\ proc[p].pair # EmptyPair
        /\ proc[p].response =
              [status |-> 500, error |-> "an internal server error occurred",
               pair |-> EmptyPair]

\* ---------------------------------------------------------------- startup
\* C20: whatever the environment the service has started in, also with the
\* lifetimes not set or set to texts that are no durations, the refresh
\* lifetime it mints with is greater than the access lifetime.
C20_RefreshTTLExceedsAccessTTL ==
    boot.phase = "running" =>
        MintingTTL(boot).refresh > MintingTTL(boot).access

\* ---------------------------------------------------------- refresh records
\* The step in which handler p's SaveRefreshToken call is answered.
SaveStep(p) == proc[p].pc = "save" /\ proc'[p].pc = "done"

\* C21: in every reachable state no two stored refresh records have the
\* same value and every stored record is bound to one existing user; and a
\* SaveRefreshToken whose value a stored record already has saves nothing
\* and makes its Login or Refresh fail with no pair.
C21_RefreshValuesUnique ==
    /\ [](/\ \A r1 \in refreshTokens, r2 \in refreshTokens :
               r1.token = r2.token => r1 = r2
          /\ \A r \in refreshTokens :
               Cardinality({u \in users : u.ID = r.user_id}) = 1)
    /\ [][\A p \in Procs :
            (SaveStep(p) /\ \E r \in refreshTokens : r.token = proc[p].refresh) =>
                /\ refreshTokens' = refreshTokens
                /\ proc'[p].err # NilErr
                /\ proc'[p].pair = EmptyPair]_vars
\* A Login whose minted value was already stored, refused by the database.
C21_Witness ==
    \E p \in Procs :
        /\ Returned(p, "login") /\ proc[p].saveFailed
        /\ proc[p].err = PgUniqueViolation
        /\ \E r \in refreshTokens : r.token = proc[p].refresh

\* C22: an access token whose refresh record is no longer stored (consumed
\* by Refresh, or deleted) is still accepted by Verify, with the user it
\* was issued to as subject, as long as its own expiry has not passed.
C22_AccessOutlivesRefresh ==
    \A id \in DOMAIN issued :
        (~Stored(id) /\ now < Seconds(issued[id].access.exp)) =>
            Verify(UseCase, issued[id].access, now) = <<issued[id].origin, NilErr>>
\* A refresh record consumed by a finished Refresh while the access token
\* issued with it has not expired.
C22_Witness ==
    \E id \in DOMAIN issued :
        /\ id \in spent /\ ~Stored(id)
        /\ now < Seconds(issued[id].access.exp)
        /\ \E p \in Procs : Returned(p, "refresh") /\ proc[p].matched = id /\ GotPair(p)

\* C23: no step changes or removes a user record: every record of the
\* users table, with its id, username, email and password hash, is still
\* in the table after a step of Register, Login or Refresh, successful or
\* failed.
C23_UsersImmutable ==
    [][\A u \in users : u \in users']_vars
\* A Register that succeeded beside an earlier user, and a later Login or
\* Refresh that has been answered with both users stored.
C23_Witness ==
    /\ Cardinality(users) = 2
    /\ \E p \in Procs : proc[p].pc = "done" /\ proc[p].op \in {"login", "refresh"}

\* A Login answered for an email no user has (the lookup itself worked) or
\* for a known email with another password than the registered one.
LoginRefused(p) ==
    \/ Returned(p, "login") /\ proc[p].found = 0 /\ proc[p].storeErr = NilErr
    \/ WrongPassword(p)

\* C24: a Login for an unknown email or with a wrong password is answered
\* in the step that looked the user up, before generatePair: it makes no
\* SaveRefreshToken call, the refresh_tokens table and its id sequence are
\* the same before and after, the pair is empty and the error reads
\* "invalid credentials".
C24_FailedLoginSavesNothing ==
    [][\A p \in Procs :
          (proc[p].pc # "done" /\ LoginRefused(p)') =>
              /\ proc[p].pc = "idle"
              /\ refreshTokens' = refreshTokens
              /\ tokenSeq' = tokenSeq
              /\ proc'[p].pair = EmptyPair
              /\ ErrorText(proc'[p].err) = "invalid credentials"]_vars
\* A wrong password refused while the store holds a refresh record of an
\* earlier Login.
C24_Witness ==
    /\ refreshTokens # {}
    /\ \E p \in Procs : WrongPassword(p)

\* ------------------------------------------------------------ HTTP bodies
\* A body the handler of op must refuse: no JSON, a required field left
\* out, an email that is none, or a new password shorter than 6.
Unacceptable(op, body) ==
    \/ ~body.json
    \/ op = "register" /\ (body.username = "" \/ body.email = ""
                              \/ body.password = "")
    \/ op = "login" /\ (body.email = "" \/ body.password = "")
    \/ op = "refresh" /\ body.refresh_token = ""
    \/ op \in {"register", "login"} /\ body.email = "not-an-email"
    \/ op = "register" /\ Len(body.password) < 6

\* C25: the HTTP Register, Login and Refresh handlers answer a body that is
\* no JSON or fails validation with 400 and "invalid request body", without
\* calling the use case, so that nothing is stored.
C25_BadBodyIs400 ==
    \A p \in Procs :
        (proc[p].pc = "done" /\ proc[p].op \in {"register", "login", "refresh"}
            /\ Unacceptable(proc[p].op, proc[p].body)) =>
            /\ proc[p].response =
                  [status |-> 400, error |-> "invalid request body",
                   pair |-> EmptyPair]
            /\ ~proc[p].invoked
            /\ proc[p].err = NilErr /\ proc[p].pair = EmptyPair
            /\ refreshTokens = {} /\ tokenSeq = 0
            /\ userSeq = Cardinality(users)
\* A Register whose body is complete but for a password of five characters.
C25_Witness ==
    \E p \in Procs :
        /\ Returned(p, "register")
        /\ proc[p].body = [json |-> TRUE, username |-> "alice",
                            email |-> "a@x.com", password |-> "12345",
                            refresh_token |-> ""]
        /\ proc[p].response.status = 400

\* -------------------------------------------------------------------- gRPC
\* C26: VerifyToken answers Valid = true with the token's subject as UserId
\* exactly when Verify returned no error; otherwise it answers with status
\* Unauthenticated and no response message, the status text being "token
\* has expired" exactly when the error is ErrTokenExpired and "invalid
\* token" for every other error.
C26_VerifyTokenReply ==
    \A p \in Procs :
        Returned(p, "verify") =>
            LET r == proc[p].reply
                err == proc[p].err
            IN /\ (r.code = "OK" /\ r.Valid /\ r.UserId = proc[p].presented.sub)
                     <=> err = NilErr
               /\ err # NilErr =>
                     /\ r.code = "Unauthenticated"
                     /\ ~r.Valid /\ r.UserId = 0
                     /\ r.message \in {"token has expired", "invalid token"}
                     /\ r.message = "token has expired" <=> err = ErrTokenExpired
\* An expired genuine token and then nothing but the fixed text.
C26_Witness ==
    \E p \in Procs :
        /\ Returned(p, "verify") /\ Genuine(p)
        /\ proc[p].err = ErrTokenExpired
        /\ proc[p].reply.message = "token has expired"

\* A Refresh answered for a value no stored record has (the lookup itself
\* worked).
UnknownValue(p) ==
    Returned(p, "refresh") /\ proc[p].matched = 0 /\ proc[p].storeErr = NilErr

\* C27: a Refresh with a value that matches no stored record fails with
\* ErrRefreshTokenNotFound and an empty pair, in the step that looked the
\* value up: no record is created or deleted and SaveRefreshToken is not
\* called.
C27_UnknownValueNotFound ==
    [][\A p \in Procs :
          (proc[p].pc # "done" /\ UnknownValue(p)') =>
              /\ ErrorsIs(proc'[p].err, ErrRefreshTokenNotFound)
              /\ proc'[p].pair = EmptyPair
              /\ proc[p].pc = "idle"
              /\ refreshTokens' = refreshTokens
              /\ tokenSeq' = tokenSeq]_vars

\* C28: the step that completes a successful Login keeps every stored
\* refresh record and adds exactly one, bound to the user who logged in;
\* and a stored record leaves the table only in the DeleteRefreshToken step
\* of a Refresh that presented its value. So without a Refresh a user's n
\* successful Logins leave n records.
C28_LoginAddsOneRecord ==
    [][(\A p \in Procs :
            (SaveStep(p) /\ proc[p].op = "login" /\ proc'[p].pair # EmptyPair) =>
                /\ refreshTokens \subseteq refreshTokens'
                /\ Cardinality(refreshTokens' \ refreshTokens) = 1
                /\ \A r \in refreshTokens' \ refreshTokens :
                      /\ r.user_id = UserOf(proc[p].email).ID
                      /\ r.token = proc'[p].pair.RefreshToken)
       /\ (\A r \in refreshTokens \ refreshTokens' :
            \E q \in Procs :
                /\ proc[q].pc = "refresh_delete" /\ proc'[q].pc # "refresh_delete"
                /\ proc[q].token = r.token)]_vars
\* A user's second successful Login, the record of the first still stored
\* beside the new one, no Refresh having been made.
C28_Witness ==
    /\ spent = {}
    /\ \E p \in Procs :
          /\ Returned(p, "login") /\ GotPair(p)
          /\ Cardinality({r \in refreshTokens :
                             /\ r.user_id = proc[p].userID
                             /\ issued[r.id].via = "login"}) = 2

\* The stored refresh records of a user.
RecordsOf(rows, userID) == {r \in rows : r.user_id = userID}

\* C29: a successful Refresh replaces one record by one: when it completes,
\* the record it was presented is no longer stored, no other Refresh has
\* replaced that record too, and the completing step adds exactly one
\* record, of the same subject, and touches no other.
C29_RefreshReplacesOne ==
    [][\A p \in Procs :
          (SaveStep(p) /\ proc[p].op = "refresh" /\ proc'[p].pair # EmptyPair) =>
              /\ ~Stored(proc[p].matched)'
              /\ ~proc'[p].dup
              /\ refreshTokens \subseteq refreshTokens'
              /\ Cardinality(refreshTokens' \ refreshTokens) = 1
              /\ \A u \in Subjects :
                    u # proc[p].userID =>
                        RecordsOf(refreshTokens', u) = RecordsOf(refreshTokens, u)]_vars

\* C30: a Refresh that found its record is refused as expired exactly when
\* the clock, at the check, is strictly after the record's expires_at; at
\* the instant expires_at itself the record is accepted and, no store or
\* issuer call failing, consumed for a new pair.
C30_RefreshExpiryStrict ==
    \A p \in Procs :
        (proc[p].op = "refresh" /\ proc[p].matched # 0
            /\ proc[p].pc \in {"save", "done"}) =>
            /\ proc[p].err = NewRefreshTokenExpired
                  <=> proc[p].checkedAt > proc[p].expiresAt
            /\ (proc[p].pc = "done" /\ proc[p].checkedAt = proc[p].expiresAt
                    /\ ~proc[p].fault) =>
                  (GotPair(p) /\ ~Stored(proc[p].matched))
\* A record presented at the very instant it expires, and a pair returned.
C30_Witness ==
    \E p \in Procs :
        /\ Returned(p, "refresh") /\ proc[p].matched # 0
        /\ proc[p].checkedAt = proc[p].expiresAt
        /\ GotPair(p) /\ ~Stored(proc[p].matched)

\* C31: a process started with JWT_SECRET or DATABASE_URL not set has
\* exited with no token manager, gRPC server or HTTP server made; and
\* whenever one of them has been made, the secret the token manager signs
\* with and the database URL are not empty.
C31_NoStartWithoutSecretOrURL ==
    /\ (boot.phase # "off"
          /\ (boot.env.JWT_SECRET = "" \/ boot.env.DATABASE_URL = "")) =>
            (boot.phase = "exited" /\ boot.created = {})
    /\ boot.created # {} =>
            /\ boot.cfg.JWTSecret # "" /\ boot.cfg.DatabaseURL # ""
            /\ boot.secretKey = boot.env.JWT_SECRET
    /\ boot.phase = "running" => boot.created = {"tokenManager", "grpc", "http"}
\* The secret is not set, the database URL is, and the process has exited.
C31_Witness ==
    /\ boot.phase = "exited" /\ boot.created = {}
    /\ boot.env.JWT_SECRET = "" /\ boot.env.DATABASE_URL # ""

Spec == Init /\ [][Next]_vars
VerifySpec == VerifyInit /\ [][VerifyNext]_vars
StartSpec == StartInit /\ [][StartNext]_vars
HTTPSpec == Init /\ [][HTTPNext]_vars
====
